---- MODULE Spec2Model ----
(***************************************************************************)
(* Game session state machine of the tic-tac-toe front end: the App        *)
(* component's state (board, active player, mode, screen, thinking flag),  *)
(* its two refs (pending COM timeout, COM turn token), the COM scheduling  *)
(* effect with its cleanup, the four event handlers and the timeout        *)
(* callback, together with the pure helpers of gameLogic.js and ai.js.     *)
(*                                                                         *)
(* One action is one task of the host event loop run to completion: an     *)
(* event handler (or a timeout callback), the re-render it causes and the  *)
(* effect cleanup / effect body that the re-render triggers when one of    *)
(* the effect's dependencies [screen, isComTurn, gameEnded] has changed.   *)
(*                                                                         *)
(* Timers are kept by the host in `timers`.  clearTimeout marks a timer    *)
(* "cleared"; a cleared timer whose callback the host had already enqueued *)
(* may still be delivered (StaleTimeoutFires) during the next MaxStaleAge  *)
(* tasks, which is the race the token in comTurnTokenRef defends against.  *)
(***************************************************************************)
EXTENDS Integers, FiniteSets, Sequences, TLC

\* ------------------------------------------------------------------ bounds
\* The token is an unbounded JS number; a step is taken only if it leaves the
\* token at or below this cap.
MaxToken == 7
\* A callback that the host had enqueued before its timer was cleared is
\* delivered within this many further tasks, or not at all.
MaxStaleAge == 1
\* Longest array handed to the pure helpers in place of a board.
MaxLen == 10

\* --------------------------------------------------------------- constants
Cells == 0..8
Empty == ""
comSymbol == "O"
\* JS null / findIndex's -1 for "no move"
NoMove == -1
\* comTimeoutRef.current === null
NoTimer == 0

VARIABLES screen, mode, board, activePlayer, isComThinking,
          comTimeoutRef, comTurnTokenRef,
          timers, cleanupToken, effectDeps, lastOp, probe

vars == <<screen, mode, board, activePlayer, isComThinking,
          comTimeoutRef, comTurnTokenRef,
          timers, cleanupToken, effectDeps, lastOp, probe>>

\* ------------------------------------------------------------ gameLogic.js
\* Mutant: the columns are listed before the rows.
WIN_LINES_columnsFirst ==
  << <<0, 3, 6>>, <<1, 4, 7>>, <<2, 5, 8>>,
     <<0, 1, 2>>, <<3, 4, 5>>, <<6, 7, 8>>,
     <<0, 4, 8>>, <<2, 4, 6>> >>

WIN_LINES ==
  << <<0, 1, 2>>, <<3, 4, 5>>, <<6, 7, 8>>,
     <<0, 3, 6>>, <<1, 4, 7>>, <<2, 5, 8>>,
     <<0, 4, 8>>, <<2, 4, 6>> >>

createEmptyBoard == [i \in Cells |-> Empty]

\* Mutant: only arrays that are too short are turned away.
IsBoard_atLeast9(b) == Cells \subseteq DOMAIN b

\* Array.isArray(board) && board.length === 9; an array of length n is a
\* function on 0..n-1.
IsBoard(b) == DOMAIN b = Cells

\* Mutant: the truthiness test of the first cell is missing.
LineWon_noEmptyCheck(b, k) ==
  /\ b[WIN_LINES[k][1]] = b[WIN_LINES[k][2]]
  /\ b[WIN_LINES[k][1]] = b[WIN_LINES[k][3]]

\* v && v === board[b] && v === board[c]
LineWon(b, k) ==
  /\ b[WIN_LINES[k][1]] # Empty
  /\ b[WIN_LINES[k][1]] = b[WIN_LINES[k][2]]
  /\ b[WIN_LINES[k][1]] = b[WIN_LINES[k][3]]

\* Index (1..8) of the first win-line that is complete, 0 for null.
getWinnerLine(b) ==
  IF ~IsBoard(b) THEN 0
  ELSE IF \E k \in 1..8 : LineWon(b, k)
  THEN CHOOSE k \in 1..8 : LineWon(b, k) /\ \A j \in 1..(k - 1) : ~LineWon(b, j)
  ELSE 0

\* The winner symbol, Empty for null.
getWinner(b) ==
  IF getWinnerLine(b) = 0 THEN Empty ELSE b[WIN_LINES[getWinnerLine(b)][1]]

\* Mutant: a full board is a draw even when it holds a winning line.
isDraw_noWinnerCheck(b) == \A i \in Cells : b[i] = "X" \/ b[i] = "O"

isDraw(b) ==
  IF ~IsBoard(b) THEN FALSE
  ELSE IF getWinner(b) # Empty THEN FALSE
  ELSE \A i \in Cells : b[i] = "X" \/ b[i] = "O"

\* Mutant: only a draw ends the game.
gameEnded_drawOnly(b) == isDraw(b)

gameEnded(b) == getWinner(b) # Empty \/ isDraw(b)

\* Mutant: the last empty cell is taken instead of the first.
firstEmpty_last(b) ==
  IF \E i \in Cells : b[i] = Empty
  THEN CHOOSE i \in Cells : b[i] = Empty /\ \A j \in (i + 1)..8 : b[j] # Empty
  ELSE NoMove

\* board.findIndex((v) => v === '')
firstEmpty(b) ==
  IF \E i \in Cells : b[i] = Empty
  THEN CHOOSE i \in Cells : b[i] = Empty /\ \A j \in 0..(i - 1) : b[j] # Empty
  ELSE NoMove

\* -------------------------------------------------------------------- ai.js
playerCount(b, k, player) ==
  Cardinality({n \in 1..3 : b[WIN_LINES[k][n]] = player})

emptyCount(b, k) ==
  Cardinality({n \in 1..3 : b[WIN_LINES[k][n]] = Empty})

LineCompletable(b, k, player) ==
  playerCount(b, k, player) = 2 /\ emptyCount(b, k) = 1

findWinningMove(b, player) ==
  IF \E k \in 1..8 : LineCompletable(b, k, player)
  THEN LET k == CHOOSE k \in 1..8 :
                  /\ LineCompletable(b, k, player)
                  /\ \A j \in 1..(k - 1) : ~LineCompletable(b, j, player)
           n == CHOOSE n \in 1..3 : b[WIN_LINES[k][n]] = Empty
       IN WIN_LINES[k][n]
  ELSE NoMove

\* Mutant: blocking is tried before winning.
pickComputerMove_blockFirst(b, com) ==
  LET humanSymbol == IF com = "X" THEN "O" ELSE "X"
      win == findWinningMove(b, com)
      block == findWinningMove(b, humanSymbol)
  IN IF block # NoMove /\ b[block] = Empty THEN block
     ELSE IF win # NoMove /\ b[win] = Empty THEN win
     ELSE IF b[4] = Empty THEN 4
     ELSE firstEmpty(b)

\* Mutant: the block step is missing.
pickComputerMove_noBlock(b, com) ==
  LET win == findWinningMove(b, com)
  IN IF win # NoMove /\ b[win] = Empty THEN win
     ELSE IF b[4] = Empty THEN 4
     ELSE firstEmpty(b)

\* Mutant: the center step is missing.
pickComputerMove_noCenter(b, com) ==
  LET humanSymbol == IF com = "X" THEN "O" ELSE "X"
      win == findWinningMove(b, com)
      block == findWinningMove(b, humanSymbol)
  IN IF win # NoMove /\ b[win] = Empty THEN win
     ELSE IF block # NoMove /\ b[block] = Empty THEN block
     ELSE firstEmpty(b)

\* Mutant: the center is taken without testing that it is empty.
pickComputerMove_centerUnchecked(b, com) ==
  LET humanSymbol == IF com = "X" THEN "O" ELSE "X"
      win == findWinningMove(b, com)
      block == findWinningMove(b, humanSymbol)
  IN IF win # NoMove /\ b[win] = Empty THEN win
     ELSE IF block # NoMove /\ b[block] = Empty THEN block
     ELSE 4

pickComputerMove(b, com) ==
  LET humanSymbol == IF com = "X" THEN "O" ELSE "X"
      win == findWinningMove(b, com)
      block == findWinningMove(b, humanSymbol)
  IN IF ~IsBoard(b) THEN NoMove
     ELSE IF win # NoMove /\ b[win] = Empty THEN win
     ELSE IF block # NoMove /\ b[block] = Empty THEN block
     ELSE IF b[4] = Empty THEN 4
     ELSE firstEmpty(b)

\* ------------------------------------------------------------------ App.js
\* The component's state and refs as one record, so that handlers, the effect
\* and the timeout callback are functions from state to state.
State ==
  [screen |-> screen, mode |-> mode, board |-> board,
   activePlayer |-> activePlayer, isComThinking |-> isComThinking,
   comTimeoutRef |-> comTimeoutRef, comTurnTokenRef |-> comTurnTokenRef,
   timers |-> timers, cleanupToken |-> cleanupToken, effectDeps |-> effectDeps]

isComMode(s) == s.mode = "hvc"

isComTurn(s) == isComMode(s) /\ s.activePlayer = comSymbol

\* Dependency array of the COM effect (comSymbol is a constant).
Deps(s) == <<s.screen, isComTurn(s), gameEnded(s.board)>>

\* Host, at the start of every task: an enqueued callback of a cleared timer
\* that was not delivered in time is discarded; the others get one task older.
AgeStale(s) ==
  [s EXCEPT !.timers =
     {u \in @ : u.status = "scheduled"} \cup
     {[u EXCEPT !.ttl = @ - 1] : u \in {v \in @ : v.status = "cleared" /\ v.ttl > 0}}]

\* window.clearTimeout(id): a no-op for an id that already fired.
clearTimeout(ts, id) ==
  {IF u.id = id /\ u.status = "scheduled"
   THEN [u EXCEPT !.status = "cleared", !.ttl = MaxStaleAge] ELSE u : u \in ts}

\* Mutant: the ref is reset but the host timer is never cleared.
CancelPendingTimeout_noClear(s) ==
  IF s.comTimeoutRef # NoTimer
  THEN [s EXCEPT !.comTimeoutRef = NoTimer]
  ELSE s

\* Mutant: the host timer is cleared but the ref keeps the handle.
CancelPendingTimeout_keepsRef(s) ==
  IF s.comTimeoutRef # NoTimer
  THEN [s EXCEPT !.timers = clearTimeout(s.timers, s.comTimeoutRef)]
  ELSE s

\* if (comTimeoutRef.current) { clearTimeout(...); comTimeoutRef.current = null; }
CancelPendingTimeout(s) ==
  IF s.comTimeoutRef # NoTimer
  THEN [s EXCEPT !.timers = clearTimeout(s.timers, s.comTimeoutRef),
                 !.comTimeoutRef = NoTimer]
  ELSE s

\* comTurnTokenRef.current++
BumpToken(s) == [s EXCEPT !.comTurnTokenRef = @ + 1]

\* Cleanup returned by the last effect run (none when that run returned early).
EffectCleanup(s) ==
  IF s.cleanupToken = 0 THEN s
  ELSE LET s1 == IF s.comTurnTokenRef = s.cleanupToken THEN BumpToken(s) ELSE s
           s2 == CancelPendingTimeout(s1)
       IN [s2 EXCEPT !.isComThinking = FALSE, !.cleanupToken = 0]

\* Mutant: the effect does not look at whose turn it is.
ShouldSchedule_noTurnCheck(s) ==
  ~(s.screen # "game" \/ ~isComMode(s) \/ gameEnded(s.board))

\* Whether the effect body schedules a COM move.
ShouldSchedule(s) ==
  ~(s.screen # "game" \/ ~isComTurn(s) \/ gameEnded(s.board))

\* Mutant: the effect schedules the move without raising the thinking flag.
ScheduleComMove_noThinking(s) ==
  [s EXCEPT !.comTurnTokenRef = @ + 1,
            !.timers = @ \cup {[id |-> s.comTurnTokenRef + 1, status |-> "scheduled", ttl |-> 0]},
            !.comTimeoutRef = s.comTurnTokenRef + 1,
            !.cleanupToken = s.comTurnTokenRef + 1]

\* Mutant: the effect raises the flag but never hands a callback to the host.
ScheduleComMove_noTimer(s) ==
  [s EXCEPT !.comTurnTokenRef = @ + 1,
            !.isComThinking = TRUE,
            !.cleanupToken = s.comTurnTokenRef + 1]

\* const myToken = ++comTurnTokenRef.current; setIsComThinking(true);
\* comTimeoutRef.current = window.setTimeout(callback, 220)
ScheduleComMove(s) ==
  LET s1 == BumpToken(s)
      myToken == s1.comTurnTokenRef
  IN [s1 EXCEPT !.isComThinking = TRUE,
                !.timers = @ \cup {[id |-> myToken, status |-> "scheduled", ttl |-> 0]},
                !.comTimeoutRef = myToken,
                !.cleanupToken = myToken]

EffectBody(s) ==
  LET s1 == CancelPendingTimeout(s)
  IN IF ShouldSchedule(s1)
     THEN ScheduleComMove(s1)
     ELSE [s1 EXCEPT !.isComThinking = FALSE, !.cleanupToken = 0]

\* Re-render after a batch of state updates: the effect re-runs (cleanup of the
\* previous run, then the body) only when a dependency changed.
Commit(s) ==
  IF Deps(s) = s.effectDeps THEN s
  ELSE [EffectBody(EffectCleanup(s)) EXCEPT !.effectDeps = Deps(s)]

\* Mutant: the selected mode is dropped and the default mode is used.
startGame_ignoresMode(s, selectedMode) ==
  [s EXCEPT !.comTurnTokenRef = @ + 1,
            !.timers = IF s.comTimeoutRef # NoTimer
                       THEN clearTimeout(@, s.comTimeoutRef) ELSE @,
            !.comTimeoutRef = NoTimer,
            !.mode = "hvh", !.screen = "game",
            !.board = createEmptyBoard, !.activePlayer = "X",
            !.isComThinking = FALSE]

\* The cancellation every handler performs: bump the token, clear the pending
\* timeout, lower the thinking flag.
HandlerCancel(s) ==
  [CancelPendingTimeout(BumpToken(s)) EXCEPT !.isComThinking = FALSE]

startGame(s, selectedMode) ==
  LET s1 == CancelPendingTimeout(BumpToken(s))
  IN [s1 EXCEPT !.mode = selectedMode, !.screen = "game",
                !.board = createEmptyBoard, !.activePlayer = "X",
                !.isComThinking = FALSE]

\* Mutant: clicks are still accepted after the game has ended.
ClickIgnored_noEndCheck(s, index) ==
  \/ (s.mode = "hvc" /\ s.activePlayer = comSymbol)
  \/ s.board[index] # Empty

\* Mutant: clicks on an occupied square are accepted.
ClickIgnored_noOccupiedCheck(s, index) ==
  \/ gameEnded(s.board)
  \/ (s.mode = "hvc" /\ s.activePlayer = comSymbol)

\* Mutant: in computer mode clicks are accepted during the computer's turn.
ClickIgnored_noTurnCheck(s, index) ==
  \/ gameEnded(s.board)
  \/ s.board[index] # Empty

\* The three early returns of handleSquareClick.
ClickIgnored(s, index) ==
  \/ gameEnded(s.board)
  \/ (isComMode(s) /\ isComTurn(s))
  \/ s.board[index] # Empty

\* Mutant: the click places the mark but does not pass the turn.
handleSquareClick_noToggle(s, index) ==
  IF ClickIgnored(s, index) THEN s
  ELSE [s EXCEPT !.board = [@ EXCEPT ![index] = s.activePlayer]]

handleSquareClick(s, index) ==
  IF ClickIgnored(s, index) THEN s
  ELSE [s EXCEPT !.board = [@ EXCEPT ![index] = s.activePlayer],
                 !.activePlayer = IF @ = "X" THEN "O" ELSE "X"]

\* Mutant: restart leaves the active player as it was.
handleRestart_keepsTurn(s) ==
  [s EXCEPT !.comTurnTokenRef = @ + 1,
            !.timers = IF s.comTimeoutRef # NoTimer
                       THEN clearTimeout(@, s.comTimeoutRef) ELSE @,
            !.comTimeoutRef = NoTimer,
            !.board = createEmptyBoard,
            !.isComThinking = FALSE]

\* Mutant: restart does not advance the turn token.
handleRestart_noBump(s) ==
  [s EXCEPT !.timers = IF s.comTimeoutRef # NoTimer
                       THEN clearTimeout(@, s.comTimeoutRef) ELSE @,
            !.comTimeoutRef = NoTimer,
            !.board = createEmptyBoard, !.activePlayer = "X",
            !.isComThinking = FALSE]

\* Mutant: restart starts the token over instead of advancing it.
handleRestart_resetsToken(s) ==
  LET s1 == CancelPendingTimeout(s)
  IN [s1 EXCEPT !.comTurnTokenRef = 1,
                !.board = createEmptyBoard, !.activePlayer = "X",
                !.isComThinking = FALSE]

handleRestart(s) ==
  LET s1 == CancelPendingTimeout(BumpToken(s))
  IN [s1 EXCEPT !.board = createEmptyBoard, !.activePlayer = "X",
                !.isComThinking = FALSE]

\* Mutant: going back to the start screen keeps the mode.
handleBackToStart_keepsMode(s) ==
  [s EXCEPT !.comTurnTokenRef = @ + 1,
            !.timers = IF s.comTimeoutRef # NoTimer
                       THEN clearTimeout(@, s.comTimeoutRef) ELSE @,
            !.comTimeoutRef = NoTimer,
            !.screen = "start",
            !.board = createEmptyBoard, !.activePlayer = "X",
            !.isComThinking = FALSE]

handleBackToStart(s) ==
  LET s1 == CancelPendingTimeout(BumpToken(s))
  IN [s1 EXCEPT !.screen = "start", !.mode = "none",
                !.board = createEmptyBoard, !.activePlayer = "X",
                !.isComThinking = FALSE]

\* Mutant: the callback never considers itself stale.
IsStale_never(s, myToken) == FALSE

\* if (comTurnTokenRef.current !== myToken) return;  (callback and updater)
IsStale(s, myToken) == s.comTurnTokenRef # myToken

\* Mutant: the fallback does not test that the target cell is empty.
FallbackMove_noOccupiedCheck(b, move) ==
  IF move = NoMove \/ move < 0 \/ move > 8
  THEN firstEmpty(b) ELSE move

\* if (move === null || move < 0 || move > 8 || prevBoard[move] !== '')
\*   move = prevBoard.findIndex((v) => v === '')
FallbackMove(b, move) ==
  IF move = NoMove \/ move < 0 \/ move > 8 \/ b[move] # Empty
  THEN firstEmpty(b) ELSE move

\* The move the setBoard updater applies: the policy's move, or the first
\* empty cell when the policy's move is illegal.
ComMove(b) == FallbackMove(b, pickComputerMove(b, comSymbol))

\* Mutant: the mark is written into a fresh board, not into a copy of prevBoard.
ComUpdate_freshBoard(s, move) ==
  IF FallbackMove(s.board, move) = NoMove
  THEN [s EXCEPT !.isComThinking = FALSE]
  ELSE [s EXCEPT !.board = [createEmptyBoard EXCEPT
                              ![FallbackMove(s.board, move)] = comSymbol],
                 !.activePlayer = "X",
                 !.isComThinking = FALSE]

\* The updater from the policy's answer on: fallback, then either no move or
\* the mark, the turn handed back and the flag lowered.
ComUpdate(s, move) ==
  IF FallbackMove(s.board, move) = NoMove
  THEN [s EXCEPT !.isComThinking = FALSE]
  ELSE [s EXCEPT !.board = [@ EXCEPT ![FallbackMove(s.board, move)] = comSymbol],
                 !.activePlayer = "X",
                 !.isComThinking = FALSE]

\* Mutant: the callback places its mark but does not hand the turn back.
TimeoutCallback_keepsTurn(s, myToken) ==
  IF s.comTurnTokenRef # myToken THEN s
  ELSE IF getWinner(s.board) # Empty \/ isDraw(s.board)
       THEN [s EXCEPT !.isComThinking = FALSE]
  ELSE IF ComMove(s.board) = NoMove
       THEN [s EXCEPT !.isComThinking = FALSE]
  ELSE [s EXCEPT !.board = [@ EXCEPT ![ComMove(s.board)] = comSymbol],
                 !.isComThinking = FALSE]

\* The setTimeout callback of the effect run that captured myToken.
TimeoutCallback(s, myToken) ==
  IF IsStale(s, myToken) THEN s
  ELSE IF ~IsBoard(s.board)
       THEN [s EXCEPT !.isComThinking = FALSE]
  ELSE IF getWinner(s.board) # Empty \/ isDraw(s.board)
       THEN [s EXCEPT !.isComThinking = FALSE]
  ELSE ComUpdate(s, pickComputerMove(s.board, comSymbol))

\* The host removes a timer from its table when it delivers the callback.
Deliver(s, t) == [s EXCEPT !.timers = {u \in @ : u.id # t.id}]

\* Text of the "Computer status" badge, rendered in computer mode.
ComputerStatus(s) ==
  IF s.isComThinking \/ isComTurn(s) THEN "COM thinking" ELSE "Your move"

\* ---------------------------------------------------------------- actions
\* The task's result n is computed once and becomes the next state.
Become(n, op) ==
  \E r \in {n} :
    /\ r.comTurnTokenRef <= MaxToken
    /\ screen' = r.screen
    /\ mode' = r.mode
    /\ board' = r.board
    /\ activePlayer' = r.activePlayer
    /\ isComThinking' = r.isComThinking
    /\ comTimeoutRef' = r.comTimeoutRef
    /\ comTurnTokenRef' = r.comTurnTokenRef
    /\ timers' = r.timers
    /\ cleanupToken' = r.cleanupToken
    /\ effectDeps' = r.effectDeps
    /\ lastOp' = op
    /\ probe' = probe

\* The pure helpers are not being exercised on their own.
NoProbe == [phase |-> "off"]

\* State of the component after mount: the effect body ran once on the start
\* screen.
Mounted ==
  /\ screen = "start"
  /\ mode = "none"
  /\ board = createEmptyBoard
  /\ activePlayer = "X"
  /\ isComThinking = FALSE
  /\ comTimeoutRef = NoTimer
  /\ comTurnTokenRef = 0
  /\ timers = {}
  /\ cleanupToken = 0
  /\ effectDeps = <<"start", FALSE, FALSE>>
  /\ lastOp = "mount"

Init == Mounted /\ probe = NoProbe

\* The state each task leaves behind: handler or callback, then re-render and
\* effect.
StartGameResult(m) == Commit(startGame(AgeStale(State), m))

SquareClickResult(index) == Commit(handleSquareClick(AgeStale(State), index))

RestartResult == Commit(handleRestart(AgeStale(State)))

BackToStartResult == Commit(handleBackToStart(AgeStale(State)))

FireResult(t) == Commit(TimeoutCallback(Deliver(AgeStale(State), t), t.id))

\* StartScreen's mode buttons (rendered only on the start screen).
StartGame(m) ==
  /\ screen = "start"
  /\ Become(StartGameResult(m), "startGame")

\* A click on square index (the board is rendered only on the game screen).
SquareClick(index) ==
  /\ screen = "game"
  /\ Become(SquareClickResult(index),
            IF ClickIgnored(State, index) THEN "clickIgnored" ELSE "click")

Restart ==
  /\ screen = "game"
  /\ Become(RestartResult,
            IF lastOp \in {"restart", "restartAgain"}
            THEN "restartAgain" ELSE "restart")

BackToStart ==
  /\ screen = "game"
  /\ Become(BackToStartResult, "backToStart")

\* The 220 ms delay of a scheduled timer elapses.
TimeoutFires(t) ==
  /\ t \in timers
  /\ t.status = "scheduled"
  /\ Become(FireResult(t), "timeout")

\* The callback of a timer that was cleared after the host enqueued it.
StaleTimeoutFires(t) ==
  /\ t \in timers
  /\ t.status = "cleared"
  /\ Become(FireResult(t), "staleTimeout")

Next ==
  \/ \E m \in {"hvh", "hvc"} : StartGame(m)
  \/ \E index \in Cells : SquareClick(index)
  \/ Restart
  \/ BackToStart
  \/ \E t \in timers : TimeoutFires(t)
  \/ \E t \in timers : StaleTimeoutFires(t)

Spec == Init /\ [][Next]_vars

\* A scheduled timer's delay can elapse: the state predicate that equals
\* ENABLED <<\E t \in timers : TimeoutFires(t)>>_vars (delivery always removes
\* the timer from the host's table, so the step changes vars).
TimerReady ==
  \E t \in timers :
     t.status = "scheduled" /\ FireResult(t).comTurnTokenRef <= MaxToken

\* The host runs the callback of a timer that stays scheduled: window.setTimeout
\* delivers after its 220 ms delay unless clearTimeout came first.  This is
\* weak fairness of \E t \in timers : TimeoutFires(t), written out with
\* TimerReady for the ENABLED predicate.
FairSpec ==
  Spec /\ ([]<>~TimerReady \/ []<><<\E t \in timers : TimeoutFires(t)>>_vars)

TypeOK ==
  /\ screen \in {"start", "game"}
  /\ mode \in {"none", "hvh", "hvc"}
  /\ board \in [Cells -> {Empty, "X", "O"}]
  /\ activePlayer \in {"X", "O"}
  /\ isComThinking \in BOOLEAN
  /\ comTimeoutRef \in 0..MaxToken
  /\ comTurnTokenRef \in 0..MaxToken
  /\ \A t \in timers : /\ t.id \in 1..MaxToken
                        /\ t.status \in {"scheduled", "cleared"}
                        /\ t.ttl \in 0..MaxStaleAge
  /\ cleanupToken \in 0..MaxToken

\* ------------------------------------- the pure helpers on arbitrary boards
\* Every array of 9 entries over '', 'X', 'O', whether or not play reaches it.
Boards == [Cells -> {Empty, "X", "O"}]

\* A board and a computer symbol are handed to the helpers.
PureInit ==
  /\ Mounted
  /\ probe \in {[phase |-> "input", board |-> b, symbol |-> sym] :
                   b \in Boards, sym \in {"X", "O"}}

\* getWinner(board) and isDraw(board), as App derives winnerInfo and draw.
EvaluateBoard ==
  /\ probe.phase = "input"
  /\ probe' = [phase |-> "evaluated", board |-> probe.board,
               symbol |-> probe.symbol,
               winner |-> getWinner(probe.board),
               line |-> getWinnerLine(probe.board),
               draw |-> isDraw(probe.board)]
  /\ UNCHANGED <<screen, mode, board, activePlayer, isComThinking,
                 comTimeoutRef, comTurnTokenRef, timers, cleanupToken,
                 effectDeps, lastOp>>

\* pickComputerMove(board, comSymbol)
ChooseMove ==
  /\ probe.phase = "input"
  /\ probe' = [phase |-> "chosen", board |-> probe.board,
               symbol |-> probe.symbol,
               move |-> pickComputerMove(probe.board, probe.symbol)]
  /\ UNCHANGED <<screen, mode, board, activePlayer, isComThinking,
                 comTimeoutRef, comTurnTokenRef, timers, cleanupToken,
                 effectDeps, lastOp>>

PureNext == EvaluateBoard \/ ChooseMove

PureSpec == PureInit /\ [][PureNext]_vars

\* Every array over '', 'X', 'O' of a length other than 9, up to MaxLen.
MalformedBoards ==
  UNION {[0..(n - 1) -> {Empty, "X", "O"}] : n \in (0..MaxLen) \ {9}}

\* An array that is not a board is handed to the helpers.
MalformedInit ==
  /\ Mounted
  /\ probe \in {[phase |-> "input", board |-> b, symbol |-> sym] :
                   b \in MalformedBoards, sym \in {"X", "O"}}

MalformedSpec == MalformedInit /\ [][PureNext]_vars

\* What a move policy could hand back to the updater: null (NoMove), indices
\* below and above the board, and every cell.
PolicyResults == (-2)..10

\* A board is handed to the updater of a unit whose checks have passed.
UpdaterInit ==
  /\ Mounted
  /\ probe \in {[phase |-> "input", board |-> b, symbol |-> comSymbol] :
                   b \in Boards}

\* The updater's fallback and move application on the probed board, with the
\* policy answering move while O is to move and the flag is raised.
ApplyPolicyResult(move) ==
  /\ probe.phase = "input"
  /\ probe' = [phase |-> "applied", board |-> probe.board,
               symbol |-> probe.symbol, policy |-> move,
               result |-> ComUpdate([State EXCEPT !.board = probe.board,
                                                  !.activePlayer = comSymbol,
                                                  !.isComThinking = TRUE], move)]
  /\ UNCHANGED <<screen, mode, board, activePlayer, isComThinking,
                 comTimeoutRef, comTurnTokenRef, timers, cleanupToken,
                 effectDeps, lastOp>>

UpdaterNext == \E move \in PolicyResults : ApplyPolicyResult(move)

UpdaterSpec == UpdaterInit /\ [][UpdaterNext]_vars

\* ------------------------------------------------- vocabulary of the claims
\* Outcome of a board, stated from the win-lines (not through getWinner).
UniformLine(b, k) ==
  \E sym \in {"X", "O"} : \A n \in 1..3 : b[WIN_LINES[k][n]] = sym

Outcome(b) ==
  IF \E k \in 1..8 : UniformLine(b, k) THEN "Win"
  ELSE IF \A i \in Cells : b[i] # Empty THEN "Draw"
  ELSE "None"

CountOf(b, sym) == Cardinality({i \in Cells : b[i] = sym})

ScheduledUnits == {t \in timers : t.status = "scheduled"}

CancelledUnits == {t \in timers : t.status = "cleared"}

\* Units whose callback would pass the token check if it ran now.
CurrentUnits == {t \in timers : t.id = comTurnTokenRef}

\* A human move attempt that the specification defines as a no-op.
InvalidAttempt(i) ==
  \/ board[i] # Empty
  \/ Outcome(board) # "None"
  \/ (mode = "hvc" /\ activePlayer = "O")

\* The session aggregate of the data model, read from a state record.
SessionOf(s) ==
  <<s.board, s.activePlayer, s.mode, s.screen, s.isComThinking, s.comTurnTokenRef>>

\* No unit of state record s is scheduled or could pass the token check.
NoPendingUnit(s) ==
  /\ s.comTimeoutRef = NoTimer
  /\ \A u \in s.timers : u.status # "scheduled" /\ u.id # s.comTurnTokenRef

\* C1: in every reachable state, delivering the callback of any cancelled unit
\* changes neither the board, the active player nor the thinking flag (nor
\* screen, mode, token or pending timer).
C1_CancelledUnitNeverMutates ==
  \A t \in CancelledUnits :
     LET n == FireResult(t)
     IN /\ n.board = board
        /\ n.activePlayer = activePlayer
        /\ n.isComThinking = isComThinking
        /\ n.screen = screen
        /\ n.mode = mode
        /\ n.comTurnTokenRef = comTurnTokenRef
        /\ n.comTimeoutRef = comTimeoutRef

\* A cancelled unit's callback was delivered while a new computer-mode game
\* was waiting for the human.
C1_Witness ==
  /\ lastOp = "staleTimeout"
  /\ screen = "game"
  /\ mode = "hvc"
  /\ board = createEmptyBoard

\* C2: at most one timer is scheduled, at most one unit could pass the token
\* check, a cancelled unit never carries the current token, and the scheduled
\* timer is the one the ref holds and carries the current token.
C2_AtMostOneUnit ==
  /\ Cardinality(ScheduledUnits) <= 1
  /\ Cardinality(CurrentUnits) <= 1
  /\ \A t \in CancelledUnits : t.id # comTurnTokenRef
  /\ \A t \in ScheduledUnits : t.id = comTurnTokenRef /\ comTimeoutRef = t.id

\* A new unit is scheduled while a cancelled one is still undelivered.
C2_Witness ==
  /\ ScheduledUnits # {}
  /\ CancelledUnits # {}

\* C3: thinking is true exactly when a scheduled, not yet fired, not cancelled
\* unit with the current token exists.
C3_ThinkingIffUnit ==
  isComThinking <=> (\E t \in ScheduledUnits : t.id = comTurnTokenRef)

\* Thinking is false right after a restart that cancelled a pending unit.
C3_Witness ==
  /\ lastOp = "restart"
  /\ CancelledUnits # {}
  /\ ~isComThinking
  /\ comTurnTokenRef >= 3

\* C4: in computer mode a human move that does not end the game places X,
\* raises the thinking flag, hands the turn to O and leaves one unit scheduled;
\* when that unit fires with the current token it adds exactly one O, hands
\* the turn to X, lowers the flag and leaves no unit that could add another O.
C4_OneOpponentMovePerTurn ==
  (screen = "game" /\ mode = "hvc") =>
    /\ \A i \in Cells :
         (~InvalidAttempt(i) /\ Outcome([board EXCEPT ![i] = "X"]) = "None") =>
            LET n == SquareClickResult(i)
            IN /\ n.board = [board EXCEPT ![i] = "X"]
               /\ n.isComThinking
               /\ n.activePlayer = "O"
               /\ \E u \in n.timers :
                     u.status = "scheduled" /\ u.id = n.comTurnTokenRef
    /\ \A t \in ScheduledUnits :
         t.id = comTurnTokenRef =>
            LET n == FireResult(t)
            IN /\ \E c \in Cells : /\ board[c] = Empty
                                   /\ n.board = [board EXCEPT ![c] = "O"]
               /\ n.activePlayer = "X"
               /\ ~n.isComThinking
               /\ NoPendingUnit(n)

\* The opponent has answered the human's first move.
C4_Witness ==
  /\ lastOp = "timeout"
  /\ mode = "hvc"
  /\ CountOf(board, "X") = 1
  /\ CountOf(board, "O") = 1
  /\ activePlayer = "X"
  /\ ~isComThinking

\* C5: in every reachable state whose outcome is Win or Draw, no click and no
\* timeout callback (of a scheduled or of a cancelled unit) changes the board.
C5_EndedBoardFrozen ==
  Outcome(board) # "None" =>
    /\ screen = "game" => \A i \in Cells : SquareClickResult(i).board = board
    /\ \A t \in timers : FireResult(t).board = board

\* A square was clicked after a win that left empty cells.
C5_Witness ==
  /\ lastOp = "clickIgnored"
  /\ Outcome(board) = "Win"
  /\ \E i \in Cells : board[i] = Empty

\* C6: in every reachable state of the game screen, the click handler applied
\* to an invalid move attempt (followed by the re-render) returns the session
\* unchanged: board, active player, mode, screen, thinking flag, pending timer
\* and token.
C6_InvalidAttemptIsNoOp ==
  screen = "game" =>
    \A i \in Cells :
       InvalidAttempt(i) =>
          LET n == SquareClickResult(i)
          IN /\ n.board = board
             /\ n.activePlayer = activePlayer
             /\ n.mode = mode
             /\ n.screen = screen
             /\ n.isComThinking = isComThinking
             /\ n.comTimeoutRef = comTimeoutRef
             /\ n.comTurnTokenRef = comTurnTokenRef
             /\ ScheduledUnits \subseteq n.timers

\* A click arrived during the opponent's turn.
C6_Witness ==
  /\ lastOp = "clickIgnored"
  /\ mode = "hvc"
  /\ activePlayer = "O"
  /\ Outcome(board) = "None"
  /\ isComThinking

\* C7: from every reachable state of the game screen, restart yields the empty
\* board with X to move and no outcome, leaves no pending unit and thinking
\* false, and keeps screen and mode.
C7_RestartFresh ==
  screen = "game" =>
    LET n == RestartResult
    IN /\ n.board = createEmptyBoard
       /\ n.activePlayer = "X"
       /\ Outcome(n.board) = "None"
       /\ NoPendingUnit(n)
       /\ ~n.isComThinking
       /\ n.screen = screen
       /\ n.mode = mode

\* A restart in computer mode cancelled the pending unit.
C7_Witness ==
  /\ lastOp = "restart"
  /\ mode = "hvc"
  /\ board = createEmptyBoard
  /\ CancelledUnits # {}

\* C8: from every reachable state of the start screen, selecting a mode starts
\* a fresh game in that mode: empty board, X to move, no pending unit,
\* thinking false.
C8_SelectModeFresh ==
  screen = "start" =>
    \A m \in {"hvh", "hvc"} :
       LET n == StartGameResult(m)
       IN /\ n.screen = "game"
          /\ n.mode = m
          /\ n.board = createEmptyBoard
          /\ n.activePlayer = "X"
          /\ ~n.isComThinking
          /\ NoPendingUnit(n)

\* A second session was started while a unit cancelled in the first one is
\* still undelivered.
C8_Witness ==
  /\ lastOp = "startGame"
  /\ mode = "hvc"
  /\ CancelledUnits # {}

\* C9: from every reachable state of the game screen, back-to-start shows the
\* start screen, clears the mode and leaves no pending unit; on the start
\* screen no timer is scheduled and no callback changes the board.
C9_BackToStartCancels ==
  /\ screen = "game" =>
       LET n == BackToStartResult
       IN /\ n.screen = "start"
          /\ n.mode = "none"
          /\ ~n.isComThinking
          /\ NoPendingUnit(n)
  /\ screen = "start" =>
       /\ ScheduledUnits = {}
       /\ board = createEmptyBoard
       /\ \A t \in timers : FireResult(t).board = board

\* Back-to-start was pressed while the opponent was thinking.
C9_Witness ==
  /\ lastOp = "backToStart"
  /\ screen = "start"
  /\ CancelledUnits # {}

\* The state after pressing restart again right after a restart.
RestartTwiceResult == Commit(handleRestart(AgeStale(RestartResult)))

\* C10 as stated: the session after a second restart equals the session after
\* the first.
C10_RestartTwiceSameSession ==
  screen = "game" => SessionOf(RestartTwiceResult) = SessionOf(RestartResult)

\* C10 amended: a second restart leaves board, active player, mode, screen,
\* thinking flag and pending timer as the first left them, and advances the
\* token by one.
C10_RestartTwiceSameButToken ==
  screen = "game" =>
    LET n1 == RestartResult
        n2 == RestartTwiceResult
    IN /\ n2.board = n1.board
       /\ n2.activePlayer = n1.activePlayer
       /\ n2.mode = n1.mode
       /\ n2.screen = n1.screen
       /\ n2.isComThinking = n1.isComThinking
       /\ n2.comTimeoutRef = n1.comTimeoutRef
       /\ NoPendingUnit(n2)
       /\ n2.comTurnTokenRef = n1.comTurnTokenRef + 1

\* Restart was pressed twice in a row.
C10_Witness ==
  /\ lastOp = "restartAgain"
  /\ board = createEmptyBoard
  /\ activePlayer = "X"

\* Two state records agree on board, active player and thinking flag.
SameGame(a, b) ==
  /\ a.board = b.board
  /\ a.activePlayer = b.activePlayer
  /\ a.isComThinking = b.isComThinking

\* The state right after the callback of unit t ran, before the re-render: the
\* ref still holds the handle of the fired timer.
JustFired(t) == TimeoutCallback(Deliver(AgeStale(State), t), t.id)

\* C11: in every reachable state, a second cancellation (by a handler or by
\* the effect cleanup) after a first one changes neither board, active player,
\* thinking flag nor the host's timers, and a cancellation right after the
\* unit fired changes none of them either; each leaves no pending unit.
C11_CancelIdempotent ==
  LET c1 == HandlerCancel(State)
      c2 == HandlerCancel(c1)
      k1 == EffectCleanup(c1)
      k0 == EffectCleanup(State)
  IN /\ NoPendingUnit(c1)
     /\ SameGame(c2, c1) /\ c2.timers = c1.timers /\ NoPendingUnit(c2)
     /\ SameGame(k1, c1) /\ k1.timers = c1.timers /\ NoPendingUnit(k1)
     /\ SameGame(HandlerCancel(k0), k0)
     /\ HandlerCancel(k0).timers = k0.timers
     /\ NoPendingUnit(HandlerCancel(k0))
     /\ \A t \in ScheduledUnits :
          LET f == JustFired(t)
          IN /\ SameGame(HandlerCancel(f), f)
             /\ HandlerCancel(f).timers = f.timers
             /\ NoPendingUnit(HandlerCancel(f))
             /\ SameGame(EffectCleanup(f), f)
             /\ EffectCleanup(f).timers = f.timers
             /\ NoPendingUnit(EffectCleanup(f))

\* The effect cleanup cancelled the handle of a unit that had just fired, for
\* the second time in the game.
C11_Witness ==
  /\ lastOp = "timeout"
  /\ mode = "hvc"
  /\ comTimeoutRef = NoTimer
  /\ cleanupToken = 0
  /\ CountOf(board, "O") = 2

\* C12: in computer mode on the game screen, whenever no opponent unit is
\* outstanding the computer-status badge reads "Your move".
C12_StatusNotStuck ==
  (/\ screen = "game"
   /\ mode = "hvc"
   /\ ~\E t \in ScheduledUnits : t.id = comTurnTokenRef) =>
     ComputerStatus(State) = "Your move"

\* C13: in computer mode a click either leaves the board as it is or writes X
\* into the clicked empty cell, and a timeout callback either leaves the board
\* as it is or writes O into one empty cell.
C13_HumanIsXComputerIsO ==
  (screen = "game" /\ mode = "hvc") =>
    /\ \A i \in Cells :
         LET n == SquareClickResult(i)
         IN \/ n.board = board
            \/ (board[i] = Empty /\ n.board = [board EXCEPT ![i] = "X"])
    /\ \A t \in timers :
         LET n == FireResult(t)
         IN \/ n.board = board
            \/ \E c \in Cells : /\ board[c] = Empty
                                /\ n.board = [board EXCEPT ![c] = "O"]

\* The human has placed a second mark after the computer's first answer.
C13_Witness ==
  /\ lastOp = "click"
  /\ mode = "hvc"
  /\ CountOf(board, "X") = 2
  /\ CountOf(board, "O") = 1

\* --------------------------------------- claims about the pure helpers
Other(sym) == IF sym = "X" THEN "O" ELSE "X"

HasEmpty(b) == \E i \in Cells : b[i] = Empty

\* Cell c is empty and the two other cells of some win-line through c hold sym.
Completes(b, c, sym) ==
  /\ b[c] = Empty
  /\ \E k \in 1..8 : \E n \in 1..3 :
        /\ WIN_LINES[k][n] = c
        /\ \A m \in (1..3) \ {n} : b[WIN_LINES[k][m]] = sym

\* sym holds two cells of some win-line whose third cell is empty.
CanComplete(b, sym) == \E c \in Cells : Completes(b, c, sym)

\* The lowest-indexed empty cell, NoMove when the board is full.
LowestEmpty(b) ==
  IF HasEmpty(b)
  THEN CHOOSE i \in Cells : b[i] = Empty /\ \A j \in Cells : b[j] = Empty => i <= j
  ELSE NoMove

\* C14: for every board the evaluation is never both Win and Draw; it is Win
\* exactly when some win-line holds three equal non-empty cells, and then the
\* reported line is such a line and the reported winner is the symbol on it.
C14_WinIffUniformLine ==
  probe.phase = "evaluated" =>
    LET b == probe.board
        win == probe.winner # Empty
    IN /\ ~(win /\ probe.draw)
       /\ win <=> \E k \in 1..8 : UniformLine(b, k)
       /\ win => /\ probe.line \in 1..8
                 /\ probe.winner \in {"X", "O"}
                 /\ \A n \in 1..3 : b[WIN_LINES[probe.line][n]] = probe.winner
       /\ ~win => probe.line = 0

\* O wins on the second diagonal of a board that has empty cells.
C14_Witness ==
  /\ probe.phase = "evaluated"
  /\ probe.winner = "O"
  /\ probe.line = 8
  /\ HasEmpty(probe.board)

\* C15: for every board the evaluation is Draw exactly when no cell is empty
\* and no win-line is uniform; a full board without a line is Draw and not
\* Win, and a board with an empty cell and no line is neither.
C15_DrawIffFullNoLine ==
  probe.phase = "evaluated" =>
    LET b == probe.board
        noLine == ~\E k \in 1..8 : UniformLine(b, k)
    IN /\ probe.draw <=> (~HasEmpty(b) /\ noLine)
       /\ (~HasEmpty(b) /\ noLine) => (probe.draw /\ probe.winner = Empty)
       /\ (HasEmpty(b) /\ noLine) => (~probe.draw /\ probe.winner = Empty)

\* A full board of five X and four O without a line was evaluated as a draw.
C15_Witness ==
  /\ probe.phase = "evaluated"
  /\ probe.draw
  /\ CountOf(probe.board, "X") = 5
  /\ CountOf(probe.board, "O") = 4

\* C16: whenever the computer's symbol can complete a line, the chosen move is
\* an empty cell that completes a line for it.
C16_WinFirst ==
  probe.phase = "chosen" =>
    (CanComplete(probe.board, probe.symbol) =>
       /\ probe.move \in Cells
       /\ Completes(probe.board, probe.move, probe.symbol))

\* The computer won although a block was needed and the center was free.
C16_Witness ==
  /\ probe.phase = "chosen"
  /\ CanComplete(probe.board, probe.symbol)
  /\ CanComplete(probe.board, Other(probe.symbol))
  /\ probe.board[4] = Empty
  /\ probe.move # 4

\* C17: whenever the computer cannot complete a line but the human can, the
\* chosen move is an empty cell that completes a line of the human.
C17_BlockSecond ==
  probe.phase = "chosen" =>
    ((/\ ~CanComplete(probe.board, probe.symbol)
      /\ CanComplete(probe.board, Other(probe.symbol))) =>
        /\ probe.move \in Cells
        /\ Completes(probe.board, probe.move, Other(probe.symbol)))

\* The computer blocked although the center was free.
C17_Witness ==
  /\ probe.phase = "chosen"
  /\ ~CanComplete(probe.board, probe.symbol)
  /\ CanComplete(probe.board, Other(probe.symbol))
  /\ probe.board[4] = Empty
  /\ probe.move # 4

\* C18: with nothing to win and nothing to block, the chosen move is 4 whenever
\* cell 4 is empty; in particular on the empty board.
C18_CenterThird ==
  probe.phase = "chosen" =>
    /\ (/\ ~CanComplete(probe.board, probe.symbol)
        /\ ~CanComplete(probe.board, Other(probe.symbol))
        /\ probe.board[4] = Empty) => probe.move = 4
    /\ probe.board = createEmptyBoard => probe.move = 4

\* The center was chosen on a board whose cell 0 is empty.
C18_Witness ==
  /\ probe.phase = "chosen"
  /\ probe.move = 4
  /\ probe.board[0] = Empty
  /\ CountOf(probe.board, "X") = 2

\* C19: with nothing to win, nothing to block and an occupied center, the
\* chosen move is the lowest-indexed empty cell (no move on a full board).
C19_FirstAvailableLast ==
  probe.phase = "chosen" =>
    ((/\ ~CanComplete(probe.board, probe.symbol)
      /\ ~CanComplete(probe.board, Other(probe.symbol))
      /\ probe.board[4] # Empty) => probe.move = LowestEmpty(probe.board))

\* The first available cell was not cell 0 and not the only empty cell.
C19_Witness ==
  /\ probe.phase = "chosen"
  /\ ~CanComplete(probe.board, probe.symbol)
  /\ ~CanComplete(probe.board, Other(probe.symbol))
  /\ probe.board[4] # Empty
  /\ probe.move = 2
  /\ probe.board[7] = Empty

\* C20: for every board and either symbol the chosen move is None exactly when
\* the board has no empty cell, and otherwise an index 0..8 of an empty cell,
\* so the callback's fallback leaves the policy's move as it is.
C20_MoveIsLegal ==
  probe.phase = "chosen" =>
    /\ probe.move = NoMove <=> ~HasEmpty(probe.board)
    /\ probe.move # NoMove =>
         (probe.move \in Cells /\ probe.board[probe.move] = Empty)
    /\ probe.symbol = comSymbol => ComMove(probe.board) = probe.move

\* No move was chosen for X on a full board.
C20_Witness ==
  /\ probe.phase = "chosen"
  /\ probe.move = NoMove
  /\ probe.symbol = "X"

\* ------------------------------------------------ arrays that are no board
\* The failure the evaluator would report for an array that is no board.
InvalidBoard == "InvalidBoard"

\* board.length
LengthOf(b) == Cardinality(DOMAIN b)

\* C21 as stated: an array whose length is not 9 is answered by the evaluator
\* with the InvalidBoard failure and not with an ordinary value.
C21_MalformedBoardRejected ==
  (probe.phase = "evaluated" /\ LengthOf(probe.board) # 9) =>
     probe.winner = InvalidBoard

\* C21 amended: an array whose length is not 9 is answered with the ordinary
\* values of an unfinished game: no winner and no line, not a draw, and no
\* move from the policy.
C21_MalformedBoardAnsweredNone ==
  LengthOf(probe.board) # 9 =>
    /\ probe.phase = "evaluated" =>
          (probe.winner = Empty /\ probe.line = 0 /\ ~probe.draw)
    /\ probe.phase = "chosen" => probe.move = NoMove

\* An array of ten cells whose first row is XXX was evaluated.
C21_Witness ==
  /\ probe.phase = "evaluated"
  /\ LengthOf(probe.board) = 10
  /\ \A i \in 0..2 : probe.board[i] = "X"
  /\ probe.winner = Empty

\* ---------------------------------------------- scheduling and the token
\* C22: a unit is scheduled exactly when the game screen shows a computer-mode
\* game without outcome in which O is to move; on the empty board of a
\* computer-mode game no unit is scheduled and no callback places a mark.
C22_ScheduledIffOpponentTurn ==
  /\ (ScheduledUnits # {}) <=>
        (/\ mode = "hvc"
         /\ screen = "game"
         /\ Outcome(board) = "None"
         /\ activePlayer = "O")
  /\ (mode = "hvc" /\ board = createEmptyBoard) =>
        /\ ScheduledUnits = {}
        /\ activePlayer = "X"
        /\ \A t \in timers : FireResult(t).board = board

\* The human's second move of a computer-mode game left a unit scheduled.
C22_Witness ==
  /\ lastOp = "click"
  /\ mode = "hvc"
  /\ ScheduledUnits # {}
  /\ CountOf(board, "X") = 2
  /\ CountOf(board, "O") = 1

\* It is the opponent's turn in a game without outcome.
OpponentTurn ==
  /\ mode = "hvc"
  /\ screen = "game"
  /\ activePlayer = "O"
  /\ Outcome(board) = "None"

\* The opponent has just placed an O and handed the turn to X, or the session
\* has just been reset.
TurnHandedBack ==
  /\ activePlayer = "X"
  /\ ~isComThinking
  /\ \/ lastOp = "timeout" /\ CountOf(board, "O") >= 1
     \/ (lastOp \in {"restart", "restartAgain", "backToStart"}
           /\ board = createEmptyBoard)

\* C23: under fair timer firing, every opponent's turn in a game without
\* outcome leads to a state where an O has been placed and X is to move or
\* the session has been reset, and a raised thinking flag leads to a lowered
\* one (for tokens below the cap of the model).
C23_OpponentTurnEnds ==
  /\ (OpponentTurn /\ comTurnTokenRef < MaxToken) ~> TurnHandedBack
  /\ (isComThinking /\ comTurnTokenRef < MaxToken) ~> ~isComThinking

\* The opponent has answered the human's third move.
C23_Witness ==
  /\ lastOp = "timeout"
  /\ mode = "hvc"
  /\ activePlayer = "X"
  /\ ~isComThinking
  /\ CountOf(board, "O") = 3

\* C24: no step lowers the token; a unit scheduled by a step carries the new
\* token, which is greater than the token before the step and than the token
\* of every unit the host still holds; no unit carries a token above the
\* current one, no two units share a token, and a cancelled unit's token is
\* below the current one.
C24_TokenMonotonic ==
  /\ [](/\ \A t \in timers : t.id <= comTurnTokenRef
        /\ \A t \in CancelledUnits : t.id < comTurnTokenRef
        /\ \A t, u \in timers : t.id = u.id => t = u)
  /\ [][/\ comTurnTokenRef' >= comTurnTokenRef
         /\ \A u \in timers' \ timers :
              u.status = "scheduled" =>
                 /\ u.id = comTurnTokenRef'
                 /\ u.id > comTurnTokenRef
                 /\ \A v \in timers : u.id > v.id]_vars

\* A restart cancelled the unit that carried the token just before it, late
\* in a session.
C24_Witness ==
  /\ lastOp = "restart"
  /\ comTurnTokenRef >= 5
  /\ \E t \in CancelledUnits : t.id = comTurnTokenRef - 1

\* C25: whatever the policy answers, on a board with an empty cell the updater
\* writes O into exactly one empty cell (the policy's cell when that is an
\* empty cell of the board, the lowest-indexed empty cell otherwise), hands
\* the turn to X and lowers the flag; on a board without an empty cell it
\* leaves board and active player as they are and lowers the flag.
C25_FallbackWritesEmptyCell ==
  probe.phase = "applied" =>
    LET b == probe.board
        n == probe.result
        m == probe.policy
        legal == m \in Cells /\ b[m] = Empty
        c == IF legal THEN m ELSE LowestEmpty(b)
    IN /\ HasEmpty(b) =>
            /\ c \in Cells
            /\ b[c] = Empty
            /\ n.board = [b EXCEPT ![c] = "O"]
            /\ n.activePlayer = "X"
            /\ ~n.isComThinking
       /\ ~HasEmpty(b) =>
            /\ n.board = b
            /\ n.activePlayer = "O"
            /\ ~n.isComThinking

\* The policy named an occupied cell and the updater wrote into a later one.
C25_Witness ==
  /\ probe.phase = "applied"
  /\ probe.policy = 4
  /\ probe.board[4] = "X"
  /\ probe.board[0] = "O"
  /\ probe.result.board[1] = "O"
  /\ probe.board[1] = Empty

\* ------------------------------------------------------ order of the lines
\* The enumeration order the tie-break rule names: rows, columns, diagonals.
RowsColumnsDiagonals ==
  << {0, 1, 2}, {3, 4, 5}, {6, 7, 8},
     {0, 3, 6}, {1, 4, 7}, {2, 5, 8},
     {0, 4, 8}, {2, 4, 6} >>

\* Line k of that order holds two sym and one empty cell.
Qualifies(b, k, sym) ==
  /\ Cardinality({c \in RowsColumnsDiagonals[k] : b[c] = sym}) = 2
  /\ Cardinality({c \in RowsColumnsDiagonals[k] : b[c] = Empty}) = 1

\* The empty cell of the first line of that order that qualifies for sym.
FirstQualifyingCell(b, sym) ==
  LET k == CHOOSE k \in 1..8 :
              Qualifies(b, k, sym) /\ \A j \in 1..(k - 1) : ~Qualifies(b, j, sym)
  IN CHOOSE c \in RowsColumnsDiagonals[k] : b[c] = Empty

\* C26: when some line qualifies for the computer's symbol the chosen move is
\* the empty cell of the first such line in the order rows, columns,
\* diagonals; when none does but some line qualifies for the human's symbol
\* it is the empty cell of the first of those.
C26_FirstQualifyingLine ==
  probe.phase = "chosen" =>
    LET b == probe.board
        com == probe.symbol
    IN /\ (\E k \in 1..8 : Qualifies(b, k, com)) =>
            probe.move = FirstQualifyingCell(b, com)
       /\ (/\ ~\E k \in 1..8 : Qualifies(b, k, com)
           /\ \E k \in 1..8 : Qualifies(b, k, Other(com))) =>
            probe.move = FirstQualifyingCell(b, Other(com))

\* Two lines qualified in the Win step and the cell chosen was not the
\* lower-indexed of their empty cells.
C26_Witness ==
  /\ probe.phase = "chosen"
  /\ Completes(probe.board, probe.move, probe.symbol)
  /\ \E c \in Cells : c < probe.move /\ Completes(probe.board, c, probe.symbol)

\* ------------------------------------------------------ marks on the board
\* C27: on the game screen, in either mode, X has as many marks as O or one
\* more, and X is to move exactly when the two counts are equal.
C27_AlternatingCounts ==
  screen = "game" =>
    /\ CountOf(board, "X") - CountOf(board, "O") \in {0, 1}
    /\ activePlayer = "X" <=> CountOf(board, "X") = CountOf(board, "O")

\* Six marks were placed in a two-player game of a later session.
C27_Witness ==
  /\ lastOp = "click"
  /\ mode = "hvh"
  /\ comTurnTokenRef >= 2
  /\ CountOf(board, "X") = 3
  /\ CountOf(board, "O") = 3
  /\ activePlayer = "X"

\* The cells whose content a step changes.
ChangedCells == {c \in Cells : board'[c] # board[c]}

\* C28: a step that is a click or a timeout callback changes at most one cell,
\* and that cell from empty to a symbol: an accepted click changes exactly one
\* cell to the mover's symbol, the callback of a scheduled unit exactly one
\* cell to O, an ignored click and a cancelled unit's callback none; a step that
\* empties a cell is a restart, a return to the start screen or a mode
\* selection.
C28_MarksAreKept ==
  [][/\ lastOp' \in {"click", "clickIgnored", "timeout", "staleTimeout"} =>
          /\ Cardinality(ChangedCells) <= 1
          /\ \A c \in ChangedCells :
                board[c] = Empty /\ board'[c] \in {"X", "O"}
          /\ lastOp' = "click" =>
                /\ Cardinality(ChangedCells) = 1
                /\ \A c \in ChangedCells : board'[c] = activePlayer
          /\ lastOp' = "clickIgnored" => ChangedCells = {}
          /\ lastOp' = "timeout" =>
                /\ Cardinality(ChangedCells) = 1
                /\ \A c \in ChangedCells : board'[c] = comSymbol
          /\ lastOp' = "staleTimeout" => ChangedCells = {}
     /\ (\E c \in Cells : board[c] # Empty /\ board'[c] = Empty) =>
          lastOp' \in {"restart", "restartAgain", "backToStart", "startGame"}
    ]_vars

\* In a two-player game O has just placed a second mark next to two X.
C28_Witness ==
  /\ lastOp = "click"
  /\ mode = "hvh"
  /\ activePlayer = "X"
  /\ CountOf(board, "X") = 2
  /\ CountOf(board, "O") = 2

\* The win-lines of the board that are complete.
CompleteLines == {k \in 1..8 : UniformLine(board, k)}

\* The cells of win-line k.
LineCells(k) == {WIN_LINES[k][n] : n \in 1..3}

\* C29 as stated: at most one win-line of a reachable board is complete.
C29_AtMostOneWinLine == Cardinality(CompleteLines) <= 1

\* C29 amended: the complete win-lines of a reachable board all carry the same
\* symbol; there are at most two of them, and two only when they cross in a
\* cell (the move into that cell completed both).
C29_WinLinesOfOneSymbol ==
  /\ Cardinality(CompleteLines) <= 2
  /\ \A j, k \in CompleteLines :
        /\ board[WIN_LINES[j][1]] = board[WIN_LINES[k][1]]
        /\ j # k => LineCells(j) \cap LineCells(k) # {}

\* A click completed two lines at once.
C29_Witness ==
  /\ lastOp = "click"
  /\ Cardinality(CompleteLines) = 2

====
